---- MODULE Spec2Model ----
(***************************************************************************)
(* The weighted adjacency-list graph of pathfinding/src/graph.rs:          *)
(* AdjacencyList { hash_map: BTreeMap<Vertex, BTreeMap<Vertex, E>> } and   *)
(* its mutation, query and export methods.                                 *)
(*                                                                         *)
(* A BTreeMap is a function whose DOMAIN is its key set; iteration is in   *)
(* ascending key order.  Every method is one atomic action; its effect on  *)
(* the store is a pure operator carrying the method's name.                *)
(***************************************************************************)
EXTENDS Integers, Sequences, FiniteSets

\* At most this many mutating calls in one run (queries are not counted).
MaxOps == 2

\* Vertex labels: those of the scenario of spec section 8.
Vertices == {1, 2, 3}
\* Edge weights (opaque values to the graph).
Weights == {5, 7}

VARIABLES
    hash_map,   \* AdjacencyList::hash_map
    pre,        \* hash_map as it was before the last call
    op,         \* the last call: its name and arguments
    result,     \* what the last call returned, or that it panicked
    pre2,       \* <<store before the previous call>> when the last two
                \* calls were the same call with the same arguments, else <<>>
    scenario,   \* progress through the scenario of spec section 8
    steps       \* number of mutating calls made

vars == <<hash_map, pre, op, result, pre2, scenario, steps>>

----------------------------------------------------------------------------
\* BTreeMap

\* BTreeMap::new()
EmptyMap == [k \in {} |-> 0]

\* BTreeMap::insert: adds the entry, or overwrites the value of an existing key
Insert(m, k, x) == [y \in (DOMAIN m) \cup {k} |-> IF y = k THEN x ELSE m[y]]

\* BTreeMap::remove: drops the key if present
Remove(m, k) == [y \in (DOMAIN m) \ {k} |-> m[y]]

\* BTreeMap::contains_key
ContainsKey(m, k) == k \in DOMAIN m

\* Mutation: iteration starts from the greatest key.
LastKey(S) == CHOOSE k \in S : \A y \in S : y <= k

\* The first key of a non-empty key set in iteration (ascending) order
FirstKey(S) == CHOOSE k \in S : \A y \in S : k <= y

\* The keys of a map as the sequence its iterator yields
RECURSIVE KeysInOrder(_)
KeysInOrder(S) ==
    IF S = {} THEN <<>>
    ELSE <<FirstKey(S)>> \o KeysInOrder(S \ {FirstKey(S)})

\* The edge maps passed as arguments: every sub-map of {1: 5, 2: 7}
SampleEdges == Insert(Insert(EmptyMap, 1, 5), 2, 7)
EdgeMaps == {[n \in D |-> SampleEdges[n]] : D \in SUBSET DOMAIN SampleEdges}

----------------------------------------------------------------------------
\* AdjacencyList: the effect of each method on the store g

\* get_neighbors / get_neighbors_mut: Option<&BTreeMap>
Some(x) == [kind |-> "some", value |-> x]
None == [kind |-> "none", value |-> <<>>]
get_neighbors(g, vertex) ==
    IF ContainsKey(g, vertex) THEN Some(g[vertex]) ELSE None

\* Mutation: a present vertex keeps its edge set.
add_vertex_keeping(g, vertex) ==
    IF ContainsKey(g, vertex) THEN g ELSE Insert(g, vertex, EmptyMap)

add_vertex(g, vertex) == Insert(g, vertex, EmptyMap)

\* Mutation: the supplied edges are merged into the existing set, not put in
\* its place.
add_vertex_with_directed_edges_merging(g, vertex, edges) ==
    IF ContainsKey(g, vertex)
    THEN Insert(g, vertex,
                [k \in (DOMAIN g[vertex]) \cup (DOMAIN edges) |->
                    IF k \in DOMAIN edges THEN edges[k] ELSE g[vertex][k]])
    ELSE Insert(g, vertex, edges)

add_vertex_with_directed_edges(g, vertex, edges) == Insert(g, vertex, edges)

\* Mutation: the reverse entry is written as well.
add_edge_directed_mirroring(g, a, b, weight) ==
    LET g1 == IF ContainsKey(g, a)
              THEN Insert(g, a, Insert(g[a], b, weight))
              ELSE Insert(g, a, Insert(EmptyMap, b, weight))
    IN  IF ContainsKey(g1, b)
        THEN Insert(g1, b, Insert(g1[b], a, weight))
        ELSE Insert(g1, b, Insert(EmptyMap, a, weight))

\* Mutation: an existing entry for b keeps its weight.
add_edge_directed_keeping(g, a, b, weight) ==
    LET g1 == IF ContainsKey(g, a)
              THEN IF ContainsKey(g[a], b) THEN g
                   ELSE Insert(g, a, Insert(g[a], b, weight))
              ELSE Insert(g, a, Insert(EmptyMap, b, weight))
    IN  IF ContainsKey(g1, b) THEN g1 ELSE Insert(g1, b, EmptyMap)

\* Mutation: an absent b is not created.
add_edge_directed_no_target(g, a, b, weight) ==
    IF ContainsKey(g, a)
    THEN Insert(g, a, Insert(g[a], b, weight))
    ELSE Insert(g, a, Insert(EmptyMap, b, weight))

add_edge_directed(g, a, b, weight) ==
    LET g1 == IF get_neighbors(g, a).kind = "some"
              THEN Insert(g, a, Insert(g[a], b, weight))
              ELSE add_vertex_with_directed_edges(g, a, Insert(EmptyMap, b, weight))
    IN  IF get_neighbors(g1, b).kind = "none"
        THEN add_vertex_with_directed_edges(g1, b, EmptyMap)
        ELSE g1

\* Mutation: the entry of b is not written.
add_edge_undirected_one_way(g, a, b, weight) ==
    LET g1 == IF ContainsKey(g, a)
              THEN Insert(g, a, Insert(g[a], b, weight))
              ELSE Insert(g, a, Insert(EmptyMap, b, weight))
    IN  IF ContainsKey(g1, b) THEN g1 ELSE Insert(g1, b, EmptyMap)

add_edge_undirected(g, a, b, weight) ==
    LET g1 == IF get_neighbors(g, a).kind = "some"
              THEN Insert(g, a, Insert(g[a], b, weight))
              ELSE add_vertex_with_directed_edges(g, a, Insert(EmptyMap, b, weight))
    IN  IF get_neighbors(g1, b).kind = "some"
        THEN Insert(g1, b, Insert(g1[b], a, weight))
        ELSE add_vertex_with_directed_edges(g1, b, Insert(EmptyMap, a, weight))

\* for (neighbor, weight) in edges { self.add_edge_undirected(..) }
RECURSIVE AddUndirectedEach(_, _, _, _)
AddUndirectedEach(g, vertex, edges, todo) ==
    IF todo = <<>> THEN g
    ELSE AddUndirectedEach(
             add_edge_undirected(g, vertex, Head(todo), edges[Head(todo)]),
             vertex, edges, Tail(todo))

\* Mutation: the vertex's edge set is put in place first (a bulk replace), and
\* then each entry is mirrored.
add_vertex_with_undirected_edges_replacing(g, vertex, edges) ==
    AddUndirectedEach(Insert(g, vertex, edges), vertex, edges,
                      KeysInOrder(DOMAIN edges))

add_vertex_with_undirected_edges(g, vertex, edges) ==
    AddUndirectedEach(g, vertex, edges, KeysInOrder(DOMAIN edges))

\* for neighbor in edges { if let Some(edges) = .. { edges.remove(vertex) } }
RECURSIVE RemoveFromEach(_, _, _)
RemoveFromEach(g, vertex, todo) ==
    IF todo = <<>> THEN g
    ELSE LET neighbor == Head(todo)
             g1 == IF get_neighbors(g, neighbor).kind = "some"
                   THEN Insert(g, neighbor, Remove(g[neighbor], vertex))
                   ELSE g
         IN  RemoveFromEach(g1, vertex, Tail(todo))

\* Mutation: the neighbors are not visited.
remove_vertex_no_cleanup(g, vertex) == Remove(g, vertex)

\* Mutation: every vertex is visited, not only the outgoing neighbors.
remove_vertex_scanning(g, vertex) ==
    Remove([c \in DOMAIN g |-> Remove(g[c], vertex)], vertex)

\* Mutation: each visited neighbor loses its whole edge set, not one entry.
remove_vertex_clearing(g, vertex) ==
    IF ContainsKey(g, vertex)
    THEN Remove([c \in DOMAIN g |->
                    IF c \in DOMAIN g[vertex] THEN EmptyMap ELSE g[c]], vertex)
    ELSE g

remove_vertex(g, vertex) ==
    LET g1 == IF get_neighbors(g, vertex).kind = "some"
              THEN RemoveFromEach(g, vertex, KeysInOrder(DOMAIN g[vertex]))
              ELSE g
    IN  Remove(g1, vertex)

\* Mutation: the vertex is inserted whether or not it is present.
toggle_vertex_inserting(g, vertex, edges) ==
    add_vertex_with_directed_edges(g, vertex, edges)

toggle_vertex(g, vertex, edges) ==
    IF ContainsKey(g, vertex)
    THEN remove_vertex(g, vertex)
    ELSE add_vertex_with_directed_edges(g, vertex, edges)

----------------------------------------------------------------------------
\* into_mermaid

\* Option::unwrap of get_neighbors(neighbor) panics on None
UnwrapPanics(g, neighbor) == get_neighbors(g, neighbor).kind = "none"

\* Mutation: the reverse entry is not looked up.
EdgeLine_directed_only(g, vertex, neighbor) == <<vertex, "-->", neighbor>>

\* Mutation: the entry is looked up in the edge set of vertex itself.
EdgeLine_own_set(g, vertex, neighbor) ==
    <<vertex,
      IF ContainsKey(get_neighbors(g, vertex).value, neighbor) THEN "---" ELSE "-->",
      neighbor>>

\* One formatted line "\n    {vertex} {edge_type} {neighbor}", as its three fields
EdgeLine(g, vertex, neighbor) ==
    <<vertex,
      IF ContainsKey(get_neighbors(g, neighbor).value, vertex) THEN "---" ELSE "-->",
      neighbor>>

\* The inner loop over edges.keys()
RECURSIVE LinesOf(_, _, _)
LinesOf(g, vertex, todo) ==
    IF todo = <<>> THEN <<>>
    ELSE <<EdgeLine(g, vertex, Head(todo))>> \o LinesOf(g, vertex, Tail(todo))

\* The outer loop over hash_map.iter()
RECURSIVE AllLines(_, _)
AllLines(g, todo) ==
    IF todo = <<>> THEN <<>>
    ELSE LinesOf(g, Head(todo), KeysInOrder(DOMAIN g[Head(todo)]))
         \o AllLines(g, Tail(todo))

Panic == [kind |-> "panic", value |-> <<>>]
Text(d) == [kind |-> "text", value |-> d]
Unit == [kind |-> "unit", value |-> <<>>]

\* The diagram is the header line followed by the edge lines.
into_mermaid(g) ==
    IF \E vertex \in DOMAIN g : \E neighbor \in DOMAIN g[vertex] :
           UnwrapPanics(g, neighbor)
    THEN Panic
    ELSE Text(<<<<"flowchart LR">>>> \o AllLines(g, KeysInOrder(DOMAIN g)))

----------------------------------------------------------------------------
\* The scenario of spec section 8: vertices 1, 2, 3; add_edge_undirected(1,2,5);
\* add_edge_directed(2,3,7).

EmptyGraph == [v \in {} |-> EmptyMap]

ScenarioStart == [v \in {1, 2, 3} |-> EmptyMap]
ScenarioFirst == [name |-> "add_edge_undirected", a |-> 1, b |-> 2, weight |-> 5]
ScenarioSecond == [name |-> "add_edge_directed", a |-> 2, b |-> 3, weight |-> 7]

IsQuery(call) == call.name \in {"get_neighbors", "into_mermaid"}

ScenarioAfter(call) ==
    IF call = ScenarioFirst /\ hash_map = ScenarioStart THEN 1
    ELSE IF call = ScenarioSecond /\ scenario = 1 THEN 2
    ELSE IF IsQuery(call) THEN scenario
    ELSE 0

----------------------------------------------------------------------------
\* The state machine

\* AdjacencyList::new(hash_map): the caller supplies the initial mapping; here
\* the empty graph or the three isolated vertices the scenario starts from.
Init ==
    /\ hash_map \in {EmptyGraph, ScenarioStart}
    /\ pre = hash_map
    /\ op = [name |-> "new"]
    /\ result = Unit
    /\ pre2 = <<>>
    /\ scenario = 0
    /\ steps = 0

\* A panic ends the run; otherwise any query, and any mutating call within the
\* budget, may come next.
CanCall(call) ==
    /\ result.kind # "panic"
    /\ IsQuery(call) \/ steps < MaxOps

Called(call, g, r) ==
    /\ CanCall(call)
    /\ hash_map' = g
    /\ pre' = hash_map
    /\ op' = call
    /\ result' = r
    /\ pre2' = IF call = op THEN <<pre>> ELSE <<>>
    /\ scenario' = ScenarioAfter(call)
    /\ steps' = IF IsQuery(call) THEN steps ELSE steps + 1

AddVertex ==
    \E v \in Vertices :
        Called([name |-> "add_vertex", vertex |-> v],
               add_vertex(hash_map, v), Unit)

AddVertexWithUndirectedEdges ==
    \E v \in Vertices, e \in EdgeMaps :
        Called([name |-> "add_vertex_with_undirected_edges", vertex |-> v, edges |-> e],
               add_vertex_with_undirected_edges(hash_map, v, e), Unit)

AddVertexWithDirectedEdges ==
    \E v \in Vertices, e \in EdgeMaps :
        Called([name |-> "add_vertex_with_directed_edges", vertex |-> v, edges |-> e],
               add_vertex_with_directed_edges(hash_map, v, e), Unit)

AddEdgeDirected ==
    \E a \in Vertices, b \in Vertices, w \in Weights :
        Called([name |-> "add_edge_directed", a |-> a, b |-> b, weight |-> w],
               add_edge_directed(hash_map, a, b, w), Unit)

AddEdgeUndirected ==
    \E a \in Vertices, b \in Vertices, w \in Weights :
        Called([name |-> "add_edge_undirected", a |-> a, b |-> b, weight |-> w],
               add_edge_undirected(hash_map, a, b, w), Unit)

RemoveVertex ==
    \E v \in Vertices :
        Called([name |-> "remove_vertex", vertex |-> v],
               remove_vertex(hash_map, v), Unit)

ToggleVertex ==
    \E v \in Vertices, e \in EdgeMaps :
        Called([name |-> "toggle_vertex", vertex |-> v, edges |-> e],
               toggle_vertex(hash_map, v, e), Unit)

GetNeighbors ==
    \E v \in Vertices :
        Called([name |-> "get_neighbors", vertex |-> v],
               hash_map, get_neighbors(hash_map, v))

IntoMermaid ==
    Called([name |-> "into_mermaid"], hash_map, into_mermaid(hash_map))

Next ==
    \/ AddVertex
    \/ AddVertexWithUndirectedEdges
    \/ AddVertexWithDirectedEdges
    \/ AddEdgeDirected
    \/ AddEdgeUndirected
    \/ RemoveVertex
    \/ ToggleVertex
    \/ GetNeighbors
    \/ IntoMermaid

Spec == Init /\ [][Next]_vars

\* AdjacencyList::default(): the run starts from the empty graph.
InitEmpty ==
    /\ hash_map = EmptyGraph
    /\ pre = hash_map
    /\ op = [name |-> "new"]
    /\ result = Unit
    /\ pre2 = <<>>
    /\ scenario = 0
    /\ steps = 0

\* Runs from the empty graph that only insert: no removal, no toggle, no
\* add_vertex_with_directed_edges.
NextInsertOnly ==
    \/ AddVertex
    \/ AddEdgeDirected
    \/ AddEdgeUndirected
    \/ AddVertexWithUndirectedEdges

SpecInsertOnly == InitEmpty /\ [][NextInsertOnly]_vars

\* Runs from the empty graph that use only add_edge_undirected,
\* add_vertex_with_undirected_edges and remove_vertex.
NextUndirected ==
    \/ AddEdgeUndirected
    \/ AddVertexWithUndirectedEdges
    \/ RemoveVertex

SpecUndirected == InitEmpty /\ [][NextUndirected]_vars

\* Two sample graphs a caller may construct: a mirrored pair 1/2, whose every
\* edge target is a vertex, and a vertex 1 whose entry 1 -> 3 dangles.
SampleClean ==
    Insert(Insert(EmptyGraph, 1, Insert(EmptyMap, 2, 5)), 2, Insert(EmptyMap, 1, 5))
SampleDangling == Insert(EmptyGraph, 1, Insert(EmptyMap, 3, 7))

\* AdjacencyList::new(hash_map) with one of the sample graphs.
InitSamples ==
    /\ hash_map \in {SampleClean, SampleDangling}
    /\ pre = hash_map
    /\ op = [name |-> "new"]
    /\ result = Unit
    /\ pre2 = <<>>
    /\ scenario = 0
    /\ steps = 0

SpecSamples == InitSamples /\ [][Next]_vars

----------------------------------------------------------------------------
\* Vocabulary of the properties

\* The outgoing edge set a vertex had before the last call (empty if absent)
EdgesBefore(v) == IF ContainsKey(pre, v) THEN pre[v] ELSE EmptyMap

\* The map m with the single entry k set to x
WithEntry(m, k, x) == [y \in (DOMAIN m) \cup {k} |-> IF y = k THEN x ELSE m[y]]

\* The map m without the entry keyed by k
WithoutEntry(m, k) == [y \in (DOMAIN m) \ {k} |-> m[y]]

\* The number of stored directed edge entries
RECURSIVE SumOfSizes(_, _)
SumOfSizes(g, S) ==
    IF S = {} THEN 0
    ELSE LET v == CHOOSE x \in S : TRUE
         IN  Cardinality(DOMAIN g[v]) + SumOfSizes(g, S \ {v})

StoredEdgeCount(g) == SumOfSizes(g, DOMAIN g)

\* The edge lines of a diagram: the lines after the header
EdgeLines(diagram) == Tail(diagram)

\* How many edge lines of a diagram satisfy Test
CountLines(diagram, Test(_)) ==
    Cardinality({i \in DOMAIN EdgeLines(diagram) : Test(EdgeLines(diagram)[i])})

----------------------------------------------------------------------------
\* C1 (Mirroring): after add_edge_undirected(a, b, w), a = b included, both a
\* and b are vertices, get_neighbors(a) contains b -> w and get_neighbors(b)
\* contains a -> w.
C1_Mirroring ==
    op.name = "add_edge_undirected" =>
        /\ get_neighbors(hash_map, op.a).kind = "some"
        /\ get_neighbors(hash_map, op.b).kind = "some"
        /\ ContainsKey(get_neighbors(hash_map, op.a).value, op.b)
        /\ get_neighbors(hash_map, op.a).value[op.b] = op.weight
        /\ ContainsKey(get_neighbors(hash_map, op.b).value, op.a)
        /\ get_neighbors(hash_map, op.b).value[op.a] = op.weight

\* add_edge_undirected has just created both of two distinct endpoints.
C1_Witness ==
    /\ op.name = "add_edge_undirected"
    /\ op.a # op.b
    /\ ~ContainsKey(pre, op.a)
    /\ ~ContainsKey(pre, op.b)
    /\ hash_map[op.b][op.a] = op.weight

\* C2 (No operation faults): every call completes normally; the only failure
\* outcome is get_neighbors returning absent, and only for a vertex that is
\* not a key of the store.
C2_NoFault ==
    /\ result.kind # "panic"
    /\ op.name = "get_neighbors" =>
           (result.kind = "none" <=> ~ContainsKey(hash_map, op.vertex))

\* C3 (Export line count): into_mermaid returns a text whose number of edge
\* lines equals the number of stored directed edge entries.
C3_ExportLineCount ==
    op.name = "into_mermaid" =>
        /\ result.kind = "text"
        /\ Len(EdgeLines(result.value)) = StoredEdgeCount(hash_map)

\* C4 as stated (Directed asymmetry): after add_edge_directed(a, b, w) on the
\* empty graph, for all a and b, b is a vertex with the empty edge set.
C4_AsymmetryAllPairs ==
    (op.name = "add_edge_directed" /\ pre = EmptyGraph) =>
        get_neighbors(hash_map, op.b) = Some(EmptyMap)

\* C4 as amended: after add_edge_directed(a, b, w) on the empty graph, b is a
\* vertex; when a # b its edge set is empty, and when a = b its edge set is
\* exactly the self-loop entry a -> w.
C4_Asymmetry ==
    (op.name = "add_edge_directed" /\ pre = EmptyGraph) =>
        get_neighbors(hash_map, op.b) =
            Some(IF op.a # op.b THEN EmptyMap
                 ELSE WithEntry(EmptyMap, op.a, op.weight))

\* add_edge_directed between two distinct vertices has acted on the empty graph.
C4_Witness ==
    /\ op.name = "add_edge_directed"
    /\ pre = EmptyGraph
    /\ op.a # op.b
    /\ ContainsKey(hash_map[op.a], op.b)

\* C5 (Removal cleanup): after remove_vertex(v), v is not a key of the store,
\* and every former outgoing neighbor of v that is still a vertex holds no
\* entry keyed by v.
C5_RemovalCleanup ==
    op.name = "remove_vertex" =>
        /\ ~ContainsKey(hash_map, op.vertex)
        /\ \A n \in DOMAIN EdgesBefore(op.vertex) :
               ContainsKey(hash_map, n) => ~ContainsKey(hash_map[n], op.vertex)

\* remove_vertex(v) has cleaned the entries of two neighbors n1, n2 of v.
C5_Witness ==
    /\ op.name = "remove_vertex"
    /\ \E n1, n2 \in DOMAIN EdgesBefore(op.vertex) :
           /\ n1 # n2 /\ n1 # op.vertex /\ n2 # op.vertex
           /\ ContainsKey(pre, n1) /\ ContainsKey(pre[n1], op.vertex)
           /\ ContainsKey(pre, n2) /\ ContainsKey(pre[n2], op.vertex)
           /\ ContainsKey(hash_map, n1) /\ ContainsKey(hash_map, n2)

\* C6 (Removal frame / dangling gap): remove_vertex(v) keeps the presence of
\* every vertex c # v; a c that was not an outgoing neighbor of v keeps its
\* whole edge set (an entry c -> v with its weight included), and an outgoing
\* neighbor of v loses only the entry keyed by v.
C6_RemovalFrame ==
    op.name = "remove_vertex" =>
        \A c \in Vertices \ {op.vertex} :
            /\ ContainsKey(hash_map, c) <=> ContainsKey(pre, c)
            /\ ContainsKey(pre, c) =>
                   hash_map[c] =
                       IF c \in DOMAIN EdgesBefore(op.vertex)
                       THEN WithoutEntry(pre[c], op.vertex)
                       ELSE pre[c]

\* remove_vertex(v) has left a dangling entry c -> v: v held no v -> c.
C6_Witness ==
    /\ op.name = "remove_vertex"
    /\ ContainsKey(pre, op.vertex)
    /\ ~ContainsKey(hash_map, op.vertex)
    /\ \E c \in (DOMAIN pre) \ {op.vertex} :
           /\ ContainsKey(pre[c], op.vertex)
           /\ ~ContainsKey(pre[op.vertex], c)
           /\ ContainsKey(hash_map[c], op.vertex)
           /\ hash_map[c][op.vertex] = pre[c][op.vertex]

\* C7 (Toggle idempotence): after toggle_vertex(v, E) twice in a row, v is a
\* key of the store iff it was one before the two calls.
C7_ToggleTwice ==
    (op.name = "toggle_vertex" /\ pre2 # <<>>) =>
        (ContainsKey(hash_map, op.vertex) <=> ContainsKey(pre2[1], op.vertex))

\* toggle_vertex(v, E) has run twice in a row on a v that started present.
C7_Witness ==
    /\ op.name = "toggle_vertex"
    /\ pre2 # <<>>
    /\ ContainsKey(pre2[1], op.vertex)
    /\ ~ContainsKey(pre, op.vertex)
    /\ ContainsKey(hash_map, op.vertex)

\* The three get_neighbors results of the scenario
ScenarioNeighbors ==
    /\ get_neighbors(hash_map, 1) = Some(WithEntry(EmptyMap, 2, 5))
    /\ get_neighbors(hash_map, 2) = Some(WithEntry(WithEntry(EmptyMap, 1, 5), 3, 7))
    /\ get_neighbors(hash_map, 3) = Some(EmptyMap)

IsBidirectional12(line) == line[2] = "---" /\ {line[1], line[3]} = {1, 2}
IsDirected23(line) == line = <<2, "-->", 3>>

\* C8 as stated (Scenario): the neighbor sets are {2:5}, {1:5, 3:7} and {}, and
\* the export contains one bidirectional line for the pair 1/2 and one
\* directed line from 2 to 3.
C8_ScenarioOneLinePerPair ==
    scenario = 2 =>
        /\ ScenarioNeighbors
        /\ op.name = "into_mermaid" =>
               /\ result.kind = "text"
               /\ CountLines(result.value, IsBidirectional12) = 1
               /\ CountLines(result.value, IsDirected23) = 1

\* C8 as amended: the neighbor sets are {2:5}, {1:5, 3:7} and {}, and the
\* export is the header followed by "1 --- 2", "2 --- 1" and "2 --> 3": two
\* bidirectional lines for the pair 1/2, one from each side, and one directed
\* line from 2 to 3.
C8_Scenario ==
    scenario = 2 =>
        /\ ScenarioNeighbors
        /\ op.name = "into_mermaid" =>
               result = Text(<< <<"flowchart LR">>,
                                <<1, "---", 2>>, <<2, "---", 1>>, <<2, "-->", 3>> >>)

\* The scenario has run and its graph has been exported.
C8_Witness == scenario = 2 /\ op.name = "into_mermaid" /\ result.kind = "text"

\* C9 (Bulk replace): add_vertex_with_directed_edges(v, E) leaves
\* get_neighbors(v) equal to exactly E, creates no other vertex (so no target
\* named in E), and leaves every other vertex's edge set unchanged (so no
\* mirrored entry).
C9_BulkReplace ==
    op.name = "add_vertex_with_directed_edges" =>
        /\ get_neighbors(hash_map, op.vertex) = Some(op.edges)
        /\ DOMAIN hash_map = (DOMAIN pre) \cup {op.vertex}
        /\ \A c \in (DOMAIN hash_map) \ {op.vertex} : hash_map[c] = pre[c]

\* add_vertex_with_directed_edges(v, E2) has replaced a different non-empty
\* edge set of v, and a target named in E2 is not a vertex.
C9_Witness ==
    /\ op.name = "add_vertex_with_directed_edges"
    /\ ContainsKey(pre, op.vertex)
    /\ DOMAIN pre[op.vertex] # {}
    /\ \E k \in DOMAIN pre[op.vertex] : ~ContainsKey(op.edges, k)
    /\ \E n \in DOMAIN op.edges : ~ContainsKey(hash_map, n)
    /\ hash_map[op.vertex] = op.edges

\* C10 (Directed-edge effect): after add_edge_directed(a, b, w) the edge set
\* of a is its previous edge set (empty if a was absent) with the single
\* entry b set to w; b is a vertex; when a # b the edge set of b is what it
\* was (empty if b was absent); every other vertex is unchanged.
C10_DirectedEffect ==
    op.name = "add_edge_directed" =>
        /\ get_neighbors(hash_map, op.a) =
               Some(WithEntry(EdgesBefore(op.a), op.b, op.weight))
        /\ ContainsKey(hash_map, op.b)
        /\ op.a # op.b => hash_map[op.b] = EdgesBefore(op.b)
        /\ op.a # op.b => ~ContainsKey(hash_map[op.b], op.a)
                              \/ ContainsKey(EdgesBefore(op.b), op.a)
        /\ \A c \in Vertices \ {op.a, op.b} :
               /\ ContainsKey(hash_map, c) <=> ContainsKey(pre, c)
               /\ ContainsKey(pre, c) => hash_map[c] = pre[c]

\* add_edge_directed(a, b, w) has replaced an earlier, different weight of
\* the entry a -> b.
C10_Witness ==
    /\ op.name = "add_edge_directed"
    /\ op.a # op.b
    /\ ContainsKey(pre, op.a)
    /\ ContainsKey(pre[op.a], op.b)
    /\ pre[op.a][op.b] # op.weight
    /\ hash_map[op.a][op.b] = op.weight

\* The edge lines of a diagram that go from v to n
LinesFromTo(diagram, v, n) ==
    {i \in DOMAIN EdgeLines(diagram) :
        EdgeLines(diagram)[i][1] = v /\ EdgeLines(diagram)[i][3] = n}

\* C11 (Export marker rule): in the text into_mermaid returns, every stored
\* entry v -> n has one line, and that line carries "---" if the edge set of
\* n has an entry keyed by v and "-->" otherwise; a mutual pair thus has two
\* lines, both "---".
C11_MarkerRule ==
    (op.name = "into_mermaid" /\ result.kind = "text") =>
        \A v \in DOMAIN hash_map : \A n \in DOMAIN hash_map[v] :
            /\ ContainsKey(hash_map, n)
            /\ Cardinality(LinesFromTo(result.value, v, n)) = 1
            /\ \A i \in LinesFromTo(result.value, v, n) :
                   EdgeLines(result.value)[i][2] =
                       IF ContainsKey(hash_map[n], v) THEN "---" ELSE "-->"

\* An export has returned for a graph holding a mutual pair of distinct
\* vertices and a one-way entry.
C11_Witness ==
    /\ op.name = "into_mermaid"
    /\ result.kind = "text"
    /\ \E v \in DOMAIN hash_map : \E n \in DOMAIN hash_map[v] :
           v # n /\ ContainsKey(hash_map[n], v)
    /\ \E v \in DOMAIN hash_map : \E n \in DOMAIN hash_map[v] :
           v # n /\ ~ContainsKey(hash_map[n], v)

\* Every key of an inner edge set of g is a key of g.
NoDangling(g) == \A v \in DOMAIN g : \A n \in DOMAIN g[v] : ContainsKey(g, n)

\* C12 (Endpoint closure under insertion): in every state reached from the
\* empty graph by add_vertex, add_edge_directed, add_edge_undirected and
\* add_vertex_with_undirected_edges, every edge target is a vertex.
C12_EndpointClosure == NoDangling(hash_map)

\* add_edge_directed from an existing a has created its far endpoint b.
C12_Witness ==
    /\ op.name = "add_edge_directed"
    /\ op.a # op.b
    /\ ContainsKey(pre, op.a)
    /\ ~ContainsKey(pre, op.b)
    /\ ContainsKey(hash_map[op.a], op.b)
    /\ ContainsKey(hash_map, op.b)

\* a -> b = w is stored in g
Stored(g, a, b, w) == ContainsKey(g, a) /\ ContainsKey(g[a], b) /\ g[a][b] = w

\* C13 (Symmetry preserved by undirected use): in every state reached from
\* the empty graph by add_edge_undirected, add_vertex_with_undirected_edges
\* and remove_vertex, a -> b = w is stored iff b -> a = w is stored, and every
\* edge target is a vertex.
C13_SymmetricClosed ==
    /\ \A a \in Vertices, b \in Vertices, w \in Weights :
           Stored(hash_map, a, b, w) <=> Stored(hash_map, b, a, w)
    /\ NoDangling(hash_map)

\* remove_vertex(v) has removed a vertex that had a mirrored edge with a
\* neighbor that is still a vertex.
C13_Witness ==
    /\ op.name = "remove_vertex"
    /\ ContainsKey(pre, op.vertex)
    /\ \E n \in (DOMAIN pre[op.vertex]) \ {op.vertex} :
           /\ ContainsKey(pre, n) /\ ContainsKey(pre[n], op.vertex)
           /\ ContainsKey(hash_map, n)

\* C14 (Toggle pairing on a clean graph): when every edge target is a vertex
\* and v is absent, toggle_vertex(v, E) twice in a row with the same E leaves
\* the whole store exactly as it was before the two calls.
C14_TogglePairing ==
    ( /\ op.name = "toggle_vertex"
      /\ pre2 # <<>>
      /\ ~ContainsKey(pre2[1], op.vertex)
      /\ NoDangling(pre2[1]) ) =>
        hash_map = pre2[1]

\* toggle_vertex(v, E) has run twice on a clean, non-empty graph without v,
\* with an E that names two vertices of the graph.
C14_Witness ==
    /\ op.name = "toggle_vertex"
    /\ pre2 # <<>>
    /\ ~ContainsKey(pre2[1], op.vertex)
    /\ NoDangling(pre2[1])
    /\ Cardinality(DOMAIN op.edges) = 2
    /\ DOMAIN op.edges \subseteq DOMAIN pre2[1]
    /\ pre[op.vertex] = op.edges
    /\ hash_map = pre2[1]

\* The map m with every entry of e set in it
WithEntries(m, e) ==
    [k \in (DOMAIN m) \cup (DOMAIN e) |-> IF k \in DOMAIN e THEN e[k] ELSE m[k]]

\* C15 (Bulk undirected insert): add_vertex_with_undirected_edges(v, E) has
\* the effect of add_edge_undirected(v, n, w) for each entry n -> w of E: v's
\* previous entries are kept and those of E set in them; every n in E is a
\* vertex whose previous set has n -> v = w set in it; every other vertex is
\* unchanged; v is a vertex afterwards iff it was one or E is non-empty, and
\* with E empty the store is unchanged.
C15_BulkUndirected ==
    op.name = "add_vertex_with_undirected_edges" =>
        /\ ContainsKey(hash_map, op.vertex) <=>
               (ContainsKey(pre, op.vertex) \/ DOMAIN op.edges # {})
        /\ DOMAIN op.edges = {} => hash_map = pre
        /\ DOMAIN op.edges # {} =>
               hash_map[op.vertex] = WithEntries(EdgesBefore(op.vertex), op.edges)
        /\ \A n \in DOMAIN op.edges :
               /\ ContainsKey(hash_map, n)
               /\ n # op.vertex =>
                      hash_map[n] = WithEntry(EdgesBefore(n), op.vertex, op.edges[n])
        /\ \A c \in Vertices \ ({op.vertex} \cup DOMAIN op.edges) :
               /\ ContainsKey(hash_map, c) <=> ContainsKey(pre, c)
               /\ ContainsKey(pre, c) => hash_map[c] = pre[c]

\* add_vertex_with_undirected_edges(v, E) with two entries in E has kept an
\* entry of v whose key is not in E.
C15_Witness ==
    /\ op.name = "add_vertex_with_undirected_edges"
    /\ Cardinality(DOMAIN op.edges) = 2
    /\ ContainsKey(pre, op.vertex)
    /\ \E k \in (DOMAIN pre[op.vertex]) \ (DOMAIN op.edges) :
           ContainsKey(hash_map[op.vertex], k)
    /\ \A n \in DOMAIN op.edges : ContainsKey(hash_map[n], op.vertex)

\* C16 (add_vertex overwrites): add_vertex(v) leaves v a vertex with the empty
\* edge set, whatever it held, and leaves every other vertex's presence and
\* edge set unchanged, entries keyed by v included.
C16_AddVertexResets ==
    op.name = "add_vertex" =>
        /\ get_neighbors(hash_map, op.vertex) = Some(EmptyMap)
        /\ DOMAIN hash_map = (DOMAIN pre) \cup {op.vertex}
        /\ \A c \in (DOMAIN hash_map) \ {op.vertex} : hash_map[c] = pre[c]

\* add_vertex(a) has run on an a that held a mirrored edge with b # a: b still
\* holds b -> a with its weight, and a holds no entry for b.
C16_Witness ==
    /\ op.name = "add_vertex"
    /\ \E b \in (DOMAIN pre) \ {op.vertex}, w \in Weights :
           /\ Stored(pre, op.vertex, b, w)
           /\ Stored(pre, b, op.vertex, w)
           /\ Stored(hash_map, b, op.vertex, w)
           /\ ~ContainsKey(hash_map[op.vertex], b)

\* C17 (Operations on an absent vertex): for a v that is not a key of the
\* store, get_neighbors(v) returns absent and remove_vertex(v) leaves the
\* whole store unchanged, entries of other vertices keyed by v included.
C17_AbsentVertex ==
    /\ (op.name = "get_neighbors" /\ ~ContainsKey(hash_map, op.vertex)) =>
           (result = None /\ hash_map = pre)
    /\ (op.name = "remove_vertex" /\ ~ContainsKey(pre, op.vertex)) =>
           hash_map = pre

\* remove_vertex(v) has run on an absent v while another vertex held an entry
\* keyed by v, and that entry is still there.
C17_Witness ==
    /\ op.name = "remove_vertex"
    /\ ~ContainsKey(pre, op.vertex)
    /\ \E c \in DOMAIN pre :
           ContainsKey(pre[c], op.vertex) /\ ContainsKey(hash_map[c], op.vertex)

\* Line l1 comes before line l2 in (source, target) order
LineBefore(l1, l2) == l1[1] < l2[1] \/ (l1[1] = l2[1] /\ l1[3] < l2[3])

\* C18 (Deterministic ordered export): whenever into_mermaid returns, its edge
\* lines are in ascending order of source and, within a source, of target, and
\* the store is as it was before the call; an export that directly follows an
\* export returns the same result.
C18_OrderedExport ==
    /\ [](op.name = "into_mermaid" =>
            /\ hash_map = pre
            /\ result.kind = "text" =>
                   \A i \in DOMAIN EdgeLines(result.value) :
                       \A j \in DOMAIN EdgeLines(result.value) :
                           i < j => LineBefore(EdgeLines(result.value)[i],
                                               EdgeLines(result.value)[j]))
    /\ [][(op.name = "into_mermaid" /\ op'.name = "into_mermaid") =>
              result' = result]_vars

\* Two exports in a row have returned a text of at least three edge lines, from
\* more than one source and with two targets of one source.
C18_Witness ==
    /\ op.name = "into_mermaid"
    /\ pre2 # <<>>
    /\ result.kind = "text"
    /\ Len(EdgeLines(result.value)) >= 3
    /\ \E i, j \in DOMAIN EdgeLines(result.value) :
           EdgeLines(result.value)[i][1] # EdgeLines(result.value)[j][1]
    /\ \E i, j \in DOMAIN EdgeLines(result.value) :
           /\ EdgeLines(result.value)[i][1] = EdgeLines(result.value)[j][1]
           /\ EdgeLines(result.value)[i][3] # EdgeLines(result.value)[j][3]

====
